---- MODULE Spec2Model ----
(***************************************************************************)
(* Model of the intent router (services/handoff_service.py) and of the    *)
(* response normalizer (utils/response_utils.py).                         *)
(*                                                                         *)
(* Spec       : HandoffService, one logical caller per session; a call of  *)
(*              classify_intent that reaches the classifier is split at    *)
(*              the blocking external call.                                *)
(* SpecParse  : parse_agent_response applied to bounded input texts.       *)
(* SpecHistory: parse_conversation_history (utils/history_utils.py)        *)
(*              applied to bounded histories and conversation texts.       *)
(***************************************************************************)
EXTENDS Integers, Sequences, FiniteSets, TLC

VARIABLES
    default_domain,    \* HandoffService.default_domain
    session_domains,   \* HandoffService._session_domains (a partial map)
    pc,                \* per session: "idle", or "calling" inside the classifier call
    current_domain,    \* per session: local current_domain of the running classify_intent
    user_message,      \* per session: argument user_message of the running classify_intent
    calls,             \* per session: classifier invocations made by the running classify_intent
    result,            \* the call that completed last: its arguments and its return value
    response,          \* parse_agent_response: the argument as passed by the caller
    parsed,            \* parse_agent_response: the returned dict (a function on its keys)
    path,              \* parse_agent_response: which return statement produced it
    chat_history,      \* parse_conversation_history: contents of the deque chat_history
    maxlen,            \* parse_conversation_history: chat_history.maxlen
    conversation_history, \* parse_conversation_history: the argument conversation_history
    new_user_message,  \* parse_conversation_history: the argument user_message
    history_before,    \* contents of chat_history when parse_conversation_history was called
    history_pc         \* "ready" before parse_conversation_history, "done" after it returned

hvars == <<default_domain, session_domains, pc, current_domain, user_message, calls, result>>
pvars == <<response, parsed, path>>
cvars == <<chat_history, maxlen, conversation_history, new_user_message, history_before,
           history_pc>>
vars == <<default_domain, session_domains, pc, current_domain, user_message, calls, result,
          response, parsed, path,
          chat_history, maxlen, conversation_history, new_user_message, history_before,
          history_pc>>

----------------------------------------------------------------------------
(* Bounds *)

NumMessages == 2
MaxRawLen == 3
MaxHistory == 3
MaxLines == 3

\* Session identifiers (session_id: str); each session has one logical caller.
Sessions == {"s1", "s2"}
Messages == 1..NumMessages

----------------------------------------------------------------------------
(* services/handoff_service.py *)

\* Keys of the AGENT_DOMAINS dict.
AGENT_DOMAINS ==
    {"cora", "interior_designer", "inventory_agent", "customer_loyalty", "cart_manager"}

\* AGENT_DOMAINS.get(d, {}).get("name", "Unknown Agent")
AgentName(d) ==
    CASE d = "cora" -> "Cora Shopping Assistant"
      [] d = "interior_designer" -> "Interior Design Specialist"
      [] d = "inventory_agent" -> "Inventory Specialist"
      [] d = "customer_loyalty" -> "Customer Loyalty Specialist"
      [] d = "cart_manager" -> "Cart Manager Specialist"
      [] OTHER -> "Unknown Agent"

\* Python's None, as returned by dict.get for a missing key.
None == "<None>"

\* Strings a caller or the classifier can supply as a domain: IntentClassification.domain
\* and the domain argument of set_domain are plain str, so names outside AGENT_DOMAINS
\* and the empty string are possible values.
DomainStrings == AGENT_DOMAINS \cup {"unknown_domain", ""}

\* Confidence values, in tenths (IntentClassification.confidence is in 0.0 .. 1.0).
ClassifierConfidences == {2, 9}

\* The structured outputs the external classifier can return.
IntentClassification ==
    [domain : DomainStrings, is_domain_change : BOOLEAN, confidence : ClassifierConfidences]

\* self._session_domains.get(session_id)
get_current_domain(session_id) ==
    IF session_id \in DOMAIN session_domains THEN session_domains[session_id] ELSE None

\* Python truthiness of an Optional[str]: None and "" are falsy.
Truthy(s) == s # None /\ s # ""

\* DictSet that writes v to every key.
DictSet_AllKeys(d, k, v) == [x \in (DOMAIN d) \cup {k} |-> v]

\* d[k] = v on a dict
DictSet(d, k, v) == [x \in (DOMAIN d) \cup {k} |-> IF x = k THEN v ELSE d[x]]

\* del d[k]
DictDel(d, k) == [x \in (DOMAIN d) \ {k} |-> d[x]]

\* What the last completed call was and what it returned.
NoResult ==
    [op |-> "none", sid |-> "", arg |-> "", before |-> None,
     classifier_calls |-> 0, classifier |-> "none",
     domain |-> "", is_domain_change |-> FALSE, confidence |-> 0,
     agent_id |-> "", agent_name |-> ""]

\* FirstMessageResult with the low confidence of the fallback.
FirstMessageResult_LowConfidence ==
    [domain |-> default_domain, is_domain_change |-> TRUE, confidence |-> 3,
     agent_id |-> default_domain, agent_name |-> AgentName(default_domain)]

\* The dict returned on the first-message path of classify_intent.
FirstMessageResult ==
    [domain |-> default_domain, is_domain_change |-> TRUE, confidence |-> 10,
     agent_id |-> default_domain, agent_name |-> AgentName(default_domain)]

\* The dict built from the classifier's structured output.
ClassifiedResult(intent) ==
    [domain |-> intent.domain, is_domain_change |-> intent.is_domain_change,
     confidence |-> intent.confidence,
     agent_id |-> intent.domain, agent_name |-> AgentName(intent.domain)]

\* FallbackResult that falls back to the default domain whatever the session's domain.
FallbackResult_Default(cur) ==
    [domain |-> default_domain, is_domain_change |-> FALSE, confidence |-> 3,
     agent_id |-> default_domain, agent_name |-> AgentName(default_domain)]

\* The dict returned by the except branch of classify_intent.
FallbackResult(cur) ==
    LET fallback_domain == IF Truthy(cur) THEN cur ELSE default_domain
    IN [domain |-> fallback_domain, is_domain_change |-> FALSE, confidence |-> 3,
        agent_id |-> fallback_domain, agent_name |-> AgentName(fallback_domain)]

\* The session map after the try branch of classify_intent.
UpdateOnChange(d, session_id, intent) ==
    IF intent.is_domain_change THEN DictSet(d, session_id, intent.domain) ELSE d

\* SetDomainValue without the check against AGENT_DOMAINS.
SetDomainValue_Unchecked(domain) == domain

\* The domain set_domain stores for its argument.
SetDomainValue(domain) ==
    IF domain \notin AGENT_DOMAINS THEN default_domain ELSE domain

\* ResetMap that keeps the entry.
ResetMap_Keep(d, session_id) == d

\* The session map after reset_session.
ResetMap(d, session_id) ==
    IF session_id \in DOMAIN d THEN DictDel(d, session_id) ELSE d

\* The completed call as recorded in result.
Completed(op, sid, arg, before, n, how, ret) ==
    [op |-> op, sid |-> sid, arg |-> arg, before |-> before,
     classifier_calls |-> n, classifier |-> how,
     domain |-> ret.domain, is_domain_change |-> ret.is_domain_change,
     confidence |-> ret.confidence, agent_id |-> ret.agent_id, agent_name |-> ret.agent_name]

NoReturn ==
    [domain |-> "", is_domain_change |-> FALSE, confidence |-> 0,
     agent_id |-> "", agent_name |-> ""]

\* classify_intent, the branch `if not current_domain`: returns without calling the classifier.
classify_intent_first(session_id, msg) ==
    /\ pc[session_id] = "idle"
    /\ ~Truthy(get_current_domain(session_id))
    /\ session_domains' = DictSet(session_domains, session_id, default_domain)
    /\ result' = Completed("classify_intent", session_id, "", get_current_domain(session_id),
                           0, "none", FirstMessageResult)
    /\ UNCHANGED <<default_domain, pc, current_domain, user_message, calls>>

\* classify_intent up to the call of self.client.beta.chat.completions.parse.
classify_intent_call(session_id, msg) ==
    /\ pc[session_id] = "idle"
    /\ Truthy(get_current_domain(session_id))
    /\ pc' = [pc EXCEPT ![session_id] = "calling"]
    /\ current_domain' = [current_domain EXCEPT ![session_id] = get_current_domain(session_id)]
    /\ user_message' = [user_message EXCEPT ![session_id] = msg]
    /\ calls' = [calls EXCEPT ![session_id] = 1]
    /\ UNCHANGED <<default_domain, session_domains, result>>

\* classify_intent after the classifier returned a structured output.
classify_intent_return(session_id, intent) ==
    /\ pc[session_id] = "calling"
    /\ session_domains' = UpdateOnChange(session_domains, session_id, intent)
    /\ result' = Completed("classify_intent", session_id, "", current_domain[session_id],
                           calls[session_id], "returned",
                           ClassifiedResult(intent))
    /\ pc' = [pc EXCEPT ![session_id] = "idle"]
    /\ current_domain' = [current_domain EXCEPT ![session_id] = None]
    /\ user_message' = [user_message EXCEPT ![session_id] = 0]
    /\ calls' = [calls EXCEPT ![session_id] = 0]
    /\ UNCHANGED default_domain

\* classify_intent after the classifier call (or the extraction of its output) raised.
classify_intent_except(session_id) ==
    /\ pc[session_id] = "calling"
    /\ result' = Completed("classify_intent", session_id, "", current_domain[session_id],
                           calls[session_id], "raised",
                           FallbackResult(current_domain[session_id]))
    /\ pc' = [pc EXCEPT ![session_id] = "idle"]
    /\ current_domain' = [current_domain EXCEPT ![session_id] = None]
    /\ user_message' = [user_message EXCEPT ![session_id] = 0]
    /\ calls' = [calls EXCEPT ![session_id] = 0]
    /\ UNCHANGED <<default_domain, session_domains>>

set_domain(session_id, domain) ==
    /\ pc[session_id] = "idle"
    /\ session_domains' = DictSet(session_domains, session_id, SetDomainValue(domain))
    /\ result' = Completed("set_domain", session_id, domain, get_current_domain(session_id),
                           0, "none", NoReturn)
    /\ UNCHANGED <<default_domain, pc, current_domain, user_message, calls>>

reset_session(session_id) ==
    /\ pc[session_id] = "idle"
    /\ session_domains' = ResetMap(session_domains, session_id)
    /\ result' = Completed("reset_session", session_id, "", get_current_domain(session_id),
                           0, "none", NoReturn)
    /\ UNCHANGED <<default_domain, pc, current_domain, user_message, calls>>

\* Values of the constructor argument default_domain: its default "cora" and an override.
\* The constructor is given the name of an agent (a key of AGENT_DOMAINS).
DefaultDomains == {"cora", "interior_designer"}

\* HandoffService.__init__
HandoffInit ==
    /\ default_domain \in DefaultDomains
    /\ session_domains = <<>>
    /\ pc = [s \in Sessions |-> "idle"]
    /\ current_domain = [s \in Sessions |-> None]
    /\ user_message = [s \in Sessions |-> 0]
    /\ calls = [s \in Sessions |-> 0]
    /\ result = NoResult

----------------------------------------------------------------------------
(* utils/response_utils.py                                                 *)
(*                                                                         *)
(* A text is a sequence of atoms.  Brackets, braces, comma, colon, the     *)
(* double quote and the newline/blank are single characters; "```" is a    *)
(* code fence; a run of letters is one word atom (no word used here starts *)
(* with a letter that forms a JSON escape after a backslash).              *)

\* The code fence (three backquotes), one atom.
Fence == "<fence>"
Quote == "\""
Backslash == "\\"
Ws == {" "}
Openers == {"[", "{"}
Closers == {"]", "}"}
Digits == {"0", "1"}

\* s[m..n], empty when n < m
Slice(s, m, n) == [k \in 1..(n - m + 1) |-> s[m + k - 1]]

\* The first index at or after j that does not hold whitespace (Len(s)+1 if none): \s*
SkipWs(s, j) ==
    IF j > Len(s) THEN j
    ELSE CHOOSE k \in j..(Len(s) + 1) :
            /\ k = Len(s) + 1 \/ s[k] \notin Ws
            /\ \A m \in j..(k - 1) : s[m] \in Ws

\* Python values, as produced by json.loads.
StrV(s) == [t |-> "str", s |-> s, items |-> <<>>, keys |-> <<>>]
NumV(s) == [t |-> "num", s |-> s, items |-> <<>>, keys |-> <<>>]
ListV(items) == [t |-> "list", s |-> <<>>, items |-> items, keys |-> <<>>]
DictV(keys, items) == [t |-> "dict", s |-> <<>>, items |-> items, keys |-> keys]

\* bool(v)
PyTruthy(v) ==
    CASE v.t = "str" -> v.s # <<>>
      [] v.t = "num" -> \E k \in 1..Len(v.s) : v.s[k] # "0"
      [] OTHER -> v.items # <<>>

\* d.get(key, default)
DictGet(d, key, default) ==
    IF \E k \in 1..Len(d.keys) : d.keys[k] = key
    THEN d.items[CHOOSE k \in 1..Len(d.keys) : d.keys[k] = key]
    ELSE default

\* key in d
DictHas(d, key) == \E k \in 1..Len(d.keys) : d.keys[k] = key

\* d[key] = v while a JSON object is built: a repeated key keeps its place and takes the last value.
DictPut(keys, items, key, v) ==
    IF \E k \in 1..Len(keys) : keys[k] = key
    THEN [keys |-> keys,
          items |-> [k \in 1..Len(items) |-> IF keys[k] = key THEN v ELSE items[k]]]
    ELSE [keys |-> Append(keys, key), items |-> Append(items, v)]

\* Result of a parsing step: the value and the index after it, or a failure (JSONDecodeError).
ParseOk(v, i) == [ok |-> TRUE, v |-> v, i |-> i]
ParseFail == [ok |-> FALSE, v |-> StrV(<<>>), i |-> 0]

\* json scanner: the rest of a string literal from s[k] on, acc the characters read so far;
\* a backslash must be followed by a quote or a backslash
RECURSIVE ScanString(_, _, _)
ScanString(s, k, acc) ==
    IF k > Len(s) THEN ParseFail
    ELSE IF s[k] = Quote THEN ParseOk(StrV(acc), k + 1)
    ELSE IF s[k] = Backslash
    THEN IF k + 1 <= Len(s) /\ s[k + 1] \in {Quote, Backslash}
         THEN ScanString(s, k + 2, Append(acc, s[k + 1]))
         ELSE ParseFail
    ELSE ScanString(s, k + 1, Append(acc, s[k]))

\* json scanner: a string literal starting at the quote s[i]
ParseString(s, i) == ScanString(s, i + 1, <<>>)

\* json scanner: an integer literal starting at the digit s[i]; a leading 0 stands alone
ParseNumber(s, i) ==
    IF s[i] = "0" THEN ParseOk(NumV(<<"0">>), i + 1)
    ELSE LET e == CHOOSE e \in i..Len(s) :
                     /\ \A m \in i..e : s[m] \in Digits
                     /\ e = Len(s) \/ s[e + 1] \notin Digits
         IN ParseOk(NumV(Slice(s, i, e)), e + 1)

RECURSIVE ParseValue(_, _), ParseElements(_, _, _), ParseMembers(_, _, _, _)

\* json scanner: any value starting at s[i]
ParseValue(s, i) ==
    IF i > Len(s) THEN ParseFail
    ELSE CASE s[i] = Quote -> ParseString(s, i)
           [] s[i] \in Digits -> ParseNumber(s, i)
           [] s[i] = "[" ->
                LET j == SkipWs(s, i + 1)
                IN IF j <= Len(s) /\ s[j] = "]" THEN ParseOk(ListV(<<>>), j + 1)
                   ELSE ParseElements(s, j, <<>>)
           [] s[i] = "{" ->
                LET j == SkipWs(s, i + 1)
                IN IF j <= Len(s) /\ s[j] = "}" THEN ParseOk(DictV(<<>>, <<>>), j + 1)
                   ELSE ParseMembers(s, j, <<>>, <<>>)
           [] OTHER -> ParseFail

\* json scanner: the elements of an array, the next one starting at s[i]
ParseElements(s, i, acc) ==
    LET r == ParseValue(s, i)
        j == SkipWs(s, r.i)
    IN IF ~r.ok \/ j > Len(s) THEN ParseFail
       ELSE IF s[j] = "]" THEN ParseOk(ListV(Append(acc, r.v)), j + 1)
       ELSE IF s[j] = "," THEN ParseElements(s, SkipWs(s, j + 1), Append(acc, r.v))
       ELSE ParseFail

\* json scanner: the members of an object, the next key starting at s[i]
ParseMembers(s, i, keys, items) ==
    IF i > Len(s) \/ s[i] # Quote THEN ParseFail
    ELSE LET key == ParseString(s, i)
             c == SkipWs(s, key.i)
             r == ParseValue(s, SkipWs(s, c + 1))
             j == SkipWs(s, r.i)
             d == DictPut(keys, items, key.v.s, r.v)
         IN IF ~key.ok \/ c > Len(s) THEN ParseFail
            ELSE IF s[c] # ":" THEN ParseFail
            ELSE IF ~r.ok \/ j > Len(s) THEN ParseFail
            ELSE IF s[j] = "}" THEN ParseOk(DictV(d.keys, d.items), j + 1)
            ELSE IF s[j] = "," THEN ParseMembers(s, SkipWs(s, j + 1), d.keys, d.items)
            ELSE ParseFail

\* json.loads(s): one value between optional whitespace, nothing after it
json_loads(s) ==
    LET r == ParseValue(s, SkipWs(s, 1))
    IN IF r.ok /\ SkipWs(s, r.i) = Len(s) + 1 THEN r ELSE ParseFail

\* The concatenation of the texts in a sequence, sep between them: sep.join(parts)
RECURSIVE Join(_, _)
Join(parts, sep) ==
    IF parts = <<>> THEN <<>>
    ELSE IF Len(parts) = 1 THEN parts[1]
    ELSE parts[1] \o sep \o Join(Tail(parts), sep)

\* The characters of s with every c in special preceded by a backslash.
RECURSIVE Escaped(_, _)
Escaped(s, special) ==
    IF s = <<>> THEN <<>>
    ELSE (IF Head(s) \in special THEN <<Backslash, Head(s)>> ELSE <<Head(s)>>)
            \o Escaped(Tail(s), special)

\* A string as a JSON literal.
DumpsStr(s) == <<Quote>> \o Escaped(s, {Quote, Backslash}) \o <<Quote>>

\* json.dumps(v), default separators ", " and ": "
RECURSIVE json_dumps(_)
json_dumps(v) ==
    CASE v.t = "str" -> DumpsStr(v.s)
      [] v.t = "num" -> v.s
      [] v.t = "list" ->
            <<"[">> \o Join([k \in 1..Len(v.items) |-> json_dumps(v.items[k])], <<",", " ">>)
                    \o <<"]">>
      [] OTHER ->
            <<"{">> \o Join([k \in 1..Len(v.keys) |->
                                DumpsStr(v.keys[k]) \o <<":", " ">> \o json_dumps(v.items[k])],
                            <<",", " ">>)
                    \o <<"}">>

\* repr(v): strings in single quotes
RECURSIVE PyRepr(_)
PyRepr(v) ==
    CASE v.t = "str" -> <<"'">> \o Escaped(v.s, {Backslash}) \o <<"'">>
      [] v.t = "num" -> v.s
      [] v.t = "list" ->
            <<"[">> \o Join([k \in 1..Len(v.items) |-> PyRepr(v.items[k])], <<",", " ">>)
                    \o <<"]">>
      [] OTHER ->
            <<"{">> \o Join([k \in 1..Len(v.keys) |->
                                <<"'">> \o Escaped(v.keys[k], {Backslash}) \o <<"'">> \o <<":", " ">>
                                    \o PyRepr(v.items[k])],
                            <<",", " ">>)
                    \o <<"}">>

\* str(v)
PyStr(v) == IF v.t = "str" THEN v.s ELSE PyRepr(v)

\* re.search(r'```(?:json)?\s*([\[{].*[\]}])\s*```', text, re.DOTALL), tried at the fence text[i]:
\* the span <<p, q>> of group 1, or <<0, 0>> when the pattern does not match there.
CodeblockAt(text, i) ==
    LET j == IF i + 1 <= Len(text) /\ text[i + 1] = "json" THEN i + 2 ELSE i + 1
        p == SkipWs(text, j)
        Ends == {q \in (p + 1)..Len(text) :
                    /\ text[q] \in Closers
                    /\ SkipWs(text, q + 1) <= Len(text)
                    /\ text[SkipWs(text, q + 1)] = Fence}
    IN IF p <= Len(text) /\ text[p] \in Openers /\ Ends # {}
       THEN <<p, CHOOSE q \in Ends : \A r \in Ends : r <= q>>
       ELSE <<0, 0>>

\* group 1 of the leftmost match of the code block pattern, or <<0, 0>>
codeblock_match(text) ==
    LET Starts == {i \in 1..Len(text) : text[i] = Fence /\ CodeblockAt(text, i) # <<0, 0>>}
    IN IF Starts = {} THEN <<0, 0>>
       ELSE CodeblockAt(text, CHOOSE i \in Starts : \A k \in Starts : i <= k)

\* group 1 of re.search(r'([\[{].*[\]}])', text, re.DOTALL): first opener to last closer
json_match(text) ==
    LET Os == {i \in 1..Len(text) : text[i] \in Openers}
        Cs == {i \in 1..Len(text) : text[i] \in Closers}
        p == CHOOSE i \in Os : \A k \in Os : i <= k
        q == CHOOSE i \in Cs : \A k \in Cs : k <= i
    IN IF Os # {} /\ Cs # {} /\ p < q THEN <<p, q>> ELSE <<0, 0>>

\* The text handed to json.loads: `response` after lines 63-70.
\* (.strip() changes nothing: group 1 starts and ends with a bracket.)
ExtractJson(text) ==
    IF codeblock_match(text) # <<0, 0>>
    THEN Slice(text, codeblock_match(text)[1], codeblock_match(text)[2])
    ELSE IF json_match(text) # <<0, 0>>
    THEN Slice(text, json_match(text)[1], json_match(text)[2])
    ELSE text

EmptyStr == StrV(<<>>)
EmptyList == ListV(<<>>)
Key(name) == <<name>>

\* products of the first list item: re-serialized when truthy and not a str
CoerceProducts(products) ==
    IF PyTruthy(products) /\ products.t # "str" THEN StrV(json_dumps(products)) ELSE products

\* str(discount_percentage) if discount_percentage else ""
CoerceDiscount(d) == IF PyTruthy(d) THEN StrV(PyStr(d)) ELSE EmptyStr

\* return value when the parsed list starts with a dict
FirstItemResult(first_item) ==
    [answer |-> DictGet(first_item, Key("answer"), EmptyStr),
     agent |-> EmptyStr,
     products |-> CoerceProducts(DictGet(first_item, Key("products"), EmptyStr)),
     discount_percentage |-> CoerceDiscount(DictGet(first_item, Key("discount_percentage"), EmptyStr)),
     image_url |-> DictGet(first_item, Key("image_output"), EmptyStr),
     additional_data |-> EmptyStr,
     cart |-> DictGet(first_item, Key("cart"), EmptyList)]

\* return value when the parsed list starts with something that is not a dict
NonDictItemResult(parsed_response) ==
    [answer |-> StrV(PyStr(parsed_response)),
     agent |-> EmptyStr,
     products |-> EmptyStr,
     discount_percentage |-> EmptyStr,
     image_url |-> EmptyStr,
     additional_data |-> EmptyStr]

\* NestedAnswer that never unwraps.
NestedAnswer_Keep(answer) == answer

\* answer of a parsed dict, unwrapped when it is itself the text of a JSON array
NestedAnswer(answer) ==
    IF answer.t = "str" /\ answer.s # <<>> /\ Head(answer.s) = "[" /\ answer.s[Len(answer.s)] = "]"
    THEN LET nested_json == json_loads(answer.s)
         IN IF /\ nested_json.ok
               /\ nested_json.v.t = "list"
               /\ Len(nested_json.v.items) > 0
               /\ nested_json.v.items[1].t = "dict"
               /\ DictHas(nested_json.v.items[1], Key("answer"))
            THEN DictGet(nested_json.v.items[1], Key("answer"), EmptyStr)
            ELSE answer
    ELSE answer

\* return value when the parsed value is a dict
DictResult(parsed_response) ==
    [answer |-> NestedAnswer(DictGet(parsed_response, Key("answer"), EmptyStr)),
     agent |-> DictGet(parsed_response, Key("agent"), EmptyStr),
     products |-> DictGet(parsed_response, Key("products"), EmptyStr),
     discount_percentage |->
         CoerceDiscount(DictGet(parsed_response, Key("discount_percentage"), EmptyStr)),
     image_url |-> DictGet(parsed_response, Key("image_url"), EmptyStr),
     additional_data |-> DictGet(parsed_response, Key("additional_data"), EmptyStr),
     cart |-> DictGet(parsed_response, Key("cart"), EmptyList)]

\* return value for a text (raw or stringified) and otherwise empty fields
PlainResult(text) ==
    [answer |-> StrV(text),
     agent |-> EmptyStr,
     products |-> EmptyStr,
     discount_percentage |-> EmptyStr,
     image_url |-> EmptyStr,
     additional_data |-> EmptyStr,
     cart |-> EmptyList]

\* parse_agent_response(text): the returned dict and the return statement that built it
parse_agent_response(text) ==
    LET extracted == ExtractJson(text)
        loaded == json_loads(extracted)
        parsed_response == loaded.v
    IN IF ~loaded.ok THEN [path |-> "except", ret |-> PlainResult(extracted)]
       ELSE IF parsed_response.t = "list" /\ Len(parsed_response.items) > 0
       THEN IF parsed_response.items[1].t = "dict"
            THEN [path |-> "list_dict", ret |-> FirstItemResult(parsed_response.items[1])]
            ELSE [path |-> "list_other", ret |-> NonDictItemResult(parsed_response)]
       ELSE IF parsed_response.t = "dict"
       THEN [path |-> "dict", ret |-> DictResult(parsed_response)]
       ELSE [path |-> "other", ret |-> PlainResult(PyStr(parsed_response))]

\* The record parse_agent_response takes the fields from: the parsed dict, or the first
\* element of the parsed list.
ExtractedRecord(text) ==
    LET parsed_response == json_loads(ExtractJson(text)).v
    IN IF parsed_response.t = "list" THEN parsed_response.items[1] ELSE parsed_response

\* parsed before parse_agent_response has returned
NotParsed == <<>>

\* The caller of parse_agent_response applies it to the text it holds.
parse_agent_response_call ==
    /\ path = "none"
    /\ parsed' = parse_agent_response(response).ret
    /\ path' = parse_agent_response(response).path
    /\ UNCHANGED response

----------------------------------------------------------------------------
(* Input texts of parse_agent_response (response: str) *)

\* Characters of the short raw texts.
RawAlphabet ==
    {Fence, "json", " ", "[", "]", "{", "}", Quote, Backslash, ",", ":", "1", "x"}

\* Every text of at most MaxRawLen characters.
RawTexts == UNION {[1..n -> RawAlphabet] : n \in 0..MaxRawLen}

\* A field left out of a reply.
Missing == [t |-> "missing", s |-> <<>>, items |-> <<>>, keys |-> <<>>]

\* The dict with the given <<key, value>> pairs, those with a Missing value left out.
RECURSIVE MkDict(_, _)
MkDict(pairs, d) ==
    IF pairs = <<>> THEN d
    ELSE IF Head(pairs)[2].t = "missing" THEN MkDict(Tail(pairs), d)
    ELSE LET e == DictPut(d.keys, d.items, Key(Head(pairs)[1]), Head(pairs)[2])
         IN MkDict(Tail(pairs), DictV(e.keys, e.items))

Item == MkDict(<<<<"label", StrV(<<"A">>)>>>>, DictV(<<>>, <<>>))
InnerReply == MkDict(<<<<"answer", StrV(<<"y">>)>>>>, DictV(<<>>, <<>>))
InnerArrayReply ==
    MkDict(<<<<"answer", StrV(json_dumps(ListV(<<InnerReply>>)))>>>>, DictV(<<>>, <<>>))

\* answer: absent, plain, empty, array text with an answer, the same after a blank, array
\* text wrapping array text, array text without an answer, array text that is not JSON
AnswerOptions ==
    {Missing, StrV(<<"x">>), StrV(<<>>),
     StrV(json_dumps(ListV(<<InnerReply>>))),
     StrV(<<" ">> \o json_dumps(ListV(<<InnerReply>>))),
     StrV(json_dumps(ListV(<<InnerArrayReply>>))),
     StrV(json_dumps(ListV(<<Item>>))),
     StrV(<<"[", "x", "]">>)}

ProductsOptions ==
    {Missing, StrV(<<"x">>), ListV(<<Item>>), ListV(<<>>), Item, DictV(<<>>, <<>>)}

DiscountOptions == {Missing, NumV(<<"0">>), NumV(<<"1", "0">>)}

CartOptions == {Missing, ListV(<<NumV(<<"1">>)>>)}

\* The remaining fields, all absent or all present.
OtherFields(present) ==
    IF present
    THEN <<<<"agent", StrV(<<"cora">>)>>, <<"image_url", StrV(<<"u">>)>>,
           <<"image_output", StrV(<<"o">>)>>, <<"additional_data", StrV(<<"d">>)>>>>
    ELSE <<>>

\* The reply records an agent produces.
Replies ==
    {MkDict(<<<<"answer", a>>, <<"products", p>>, <<"discount_percentage", d>>, <<"cart", c>>>>
                \o OtherFields(o), DictV(<<>>, <<>>)) :
        a \in AnswerOptions, p \in ProductsOptions, d \in DiscountOptions,
        c \in CartOptions, o \in BOOLEAN}

\* The JSON documents: a reply, arrays around it, and values that are neither.
Documents ==
    Replies
    \cup {ListV(<<r>>) : r \in Replies}
    \cup {ListV(<<r, NumV(<<"1">>)>>) : r \in Replies}
    \cup {ListV(<<NumV(<<"1">>), r>>) : r \in Replies}
    \cup {ListV(<<>>), ListV(<<StrV(<<"x">>), NumV(<<"1">>)>>), ListV(<<ListV(<<Item>>)>>),
          StrV(<<"x">>), NumV(<<"1">>)}

\* Text around a document: <<before, after>>.
Wrappers ==
    {<<<<>>, <<>>>>,
     <<<<Fence, "json", " ">>, <<" ", Fence>>>>,
     <<<<"x", " ", Fence>>, <<Fence, " ", "x">>>>,
     <<<<"x", " ">>, <<" ", "x">>>>,
     <<<<Fence, "json", " ">>, <<>>>>,
     <<<<"x", "{", " ">>, <<>>>>,
     <<<<>>, <<"]">>>>}

WrappedTexts == {w[1] \o json_dumps(d) \o w[2] : w \in Wrappers, d \in Documents}

Texts == RawTexts \cup WrappedTexts

----------------------------------------------------------------------------
(* utils/history_utils.py                                                  *)
(*                                                                         *)
(* conversation_history is a text of the same atoms, with the newline as   *)
(* one more character; "user" and "bot" are word atoms, so that the prefix *)
(* 'user: ' is the three atoms "user", ":", " ".                           *)

Newline == "\n"
PyWhitespace == {" ", Newline}
UserPrefix == <<"user", ":", " ">>
BotPrefix == <<"bot", ":", " ">>

\* s.strip()
RECURSIVE Strip(_)
Strip(s) ==
    IF s = <<>> THEN s
    ELSE IF Head(s) \in PyWhitespace THEN Strip(Tail(s))
    ELSE IF s[Len(s)] \in PyWhitespace THEN Strip(Slice(s, 1, Len(s) - 1))
    ELSE s

\* s.split('\n'): the lines of s, a single empty line for the empty text
RECURSIVE SplitLines(_, _)
SplitLines(s, line) ==
    IF s = <<>> THEN <<line>>
    ELSE IF Head(s) = Newline THEN <<line>> \o SplitLines(Tail(s), <<>>)
    ELSE SplitLines(Tail(s), Append(line, Head(s)))

\* line.startswith(prefix)
StartsWith(line, prefix) ==
    Len(line) >= Len(prefix) /\ Slice(line, 1, Len(prefix)) = prefix

\* An entry (role, message) of chat_history.
Entry(role, msg) == [role |-> role, msg |-> msg]

\* bot_msg after the cleaning of lines 69-80: the answer of a JSON reply, else the text
CleanBotMessage(bot_msg) ==
    LET parsed_bot == json_loads(bot_msg)
    IN IF ~parsed_bot.ok THEN StrV(bot_msg)
       ELSE IF parsed_bot.v.t = "list" /\ Len(parsed_bot.v.items) > 0
       THEN IF parsed_bot.v.items[1].t = "dict" /\ DictHas(parsed_bot.v.items[1], Key("answer"))
            THEN DictGet(parsed_bot.v.items[1], Key("answer"), EmptyStr)
            ELSE StrV(bot_msg)
       ELSE IF parsed_bot.v.t = "dict" /\ DictHas(parsed_bot.v, Key("answer"))
       THEN DictGet(parsed_bot.v, Key("answer"), EmptyStr)
       ELSE StrV(bot_msg)

\* DequeAppend that refuses the new entry when the deque is full.
DequeAppend_DropNew(q, n, e) == IF Len(q) >= n THEN q ELSE Append(q, e)

\* deque(maxlen=n).append(e): a full deque drops its oldest entry
DequeAppend(q, n, e) == IF Len(q) >= n THEN Tail(q) \o <<e>> ELSE Append(q, e)

\* The loop of lines 62-81 over the lines from the k-th on, q the deque so far.
RECURSIVE AppendLines(_, _, _, _)
AppendLines(lines, k, q, n) ==
    IF k > Len(lines) THEN q
    ELSE IF StartsWith(lines[k], UserPrefix)
    THEN AppendLines(lines, k + 1,
            DequeAppend(q, n, Entry("user", StrV(Slice(lines[k], 4, Len(lines[k]))))), n)
    ELSE IF StartsWith(lines[k], BotPrefix)
    THEN AppendLines(lines, k + 1,
            DequeAppend(q, n, Entry("bot", CleanBotMessage(Slice(lines[k], 4, Len(lines[k]))))), n)
    ELSE AppendLines(lines, k + 1, q, n)

\* parse_conversation_history(conv, q, msg) on a deque of maxlen n: the contents of the
\* deque it returns.  Nothing in the try block raises, so the except branch is not taken.
parse_conversation_history(conv, q, n, msg) ==
    IF conv # <<>>
    THEN DequeAppend(AppendLines(SplitLines(Strip(conv), <<>>), 1, <<>>, n), n, Entry("user", msg))
    ELSE DequeAppend(q, n, Entry("user", msg))

\* The caller applies parse_conversation_history to its deque.
parse_conversation_history_call ==
    /\ history_pc = "ready"
    /\ history_before' = chat_history
    /\ chat_history' = parse_conversation_history(conversation_history, chat_history, maxlen,
                                                  new_user_message)
    /\ history_pc' = "done"
    /\ UNCHANGED <<maxlen, conversation_history, new_user_message>>

\* No history is being parsed.
HistoryIdle ==
    /\ chat_history = <<>>
    /\ maxlen = 1
    /\ conversation_history = <<>>
    /\ new_user_message = EmptyStr
    /\ history_before = <<>>
    /\ history_pc = "idle"

----------------------------------------------------------------------------
(* Inputs of parse_conversation_history *)

\* Entries a deque holds before the call.
HistoryEntries == {Entry("user", StrV(<<"a">>)), Entry("bot", StrV(<<"b">>))}

\* Lines of a conversation text: a user line, a bot line with plain text, with a JSON reply,
\* with a JSON array of replies, a line with neither prefix, an empty line.
LineOptions ==
    {UserPrefix \o <<"x">>,
     BotPrefix \o <<"y">>,
     BotPrefix \o json_dumps(InnerReply),
     BotPrefix \o json_dumps(ListV(<<InnerReply, NumV(<<"1">>)>>)),
     <<"x", ":", " ", "user", ":", " ", "y">>,
     <<>>}

\* Whitespace around a conversation text: <<before, after>>.
Paddings == {<<<<>>, <<>>>>, <<<<Newline, " ">>, <<" ", Newline>>>>}

\* The conversation texts: up to MaxLines lines, padded or not.
Conversations ==
    {w[1] \o Join(ls, <<Newline>>) \o w[2] :
        w \in Paddings, ls \in UNION {[1..k -> LineOptions] : k \in 0..MaxLines}}

UserMessages == {StrV(<<"q">>), StrV(<<"a">>)}

HistoryInit ==
    /\ default_domain = "cora"
    /\ session_domains = <<>>
    /\ pc = [s \in Sessions |-> "idle"]
    /\ current_domain = [s \in Sessions |-> None]
    /\ user_message = [s \in Sessions |-> 0]
    /\ calls = [s \in Sessions |-> 0]
    /\ result = NoResult
    /\ response = <<>>
    /\ parsed = NotParsed
    /\ path = "none"
    /\ maxlen \in 1..MaxHistory
    /\ chat_history \in UNION {[1..k -> HistoryEntries] : k \in 0..maxlen}
    /\ conversation_history \in Conversations
    /\ new_user_message \in UserMessages
    /\ history_before = <<>>
    /\ history_pc = "ready"

HistoryNext == parse_conversation_history_call /\ UNCHANGED <<hvars, pvars>>

SpecHistory == HistoryInit /\ [][HistoryNext]_vars

----------------------------------------------------------------------------
(* Properties of parse_conversation_history, checked under SpecHistory *)

\* The last n entries of q.
LastN(q, n) == IF Len(q) <= n THEN q ELSE Slice(q, Len(q) - n + 1, Len(q))

\* The entries the user and bot lines of a conversation text stand for, in their order.
ParsedLines(conv) == AppendLines(SplitLines(Strip(conv), <<>>), 1, <<>>, Len(conv) + 1)

\* C13 as stated: after the call the deque ends with ("user", user_message), added once;
\* for a non-empty conversation_history it holds the parsed user and bot lines in their
\* order and then that entry, for an empty one the previous contents and then that entry.
C13_HistoryRebuilt ==
    history_pc = "done" =>
        /\ chat_history # <<>>
        /\ chat_history[Len(chat_history)] = Entry("user", new_user_message)
        /\ conversation_history # <<>> =>
              chat_history = ParsedLines(conversation_history)
                                \o <<Entry("user", new_user_message)>>
        /\ conversation_history = <<>> =>
              chat_history = history_before \o <<Entry("user", new_user_message)>>

\* C13 amended: the same, except that the deque holds only the last maxlen entries of
\* that sequence.
C13_HistoryRebuiltWithinCapacity ==
    history_pc = "done" =>
        /\ chat_history # <<>>
        /\ chat_history[Len(chat_history)] = Entry("user", new_user_message)
        /\ conversation_history # <<>> =>
              chat_history = LastN(ParsedLines(conversation_history)
                                      \o <<Entry("user", new_user_message)>>, maxlen)
        /\ conversation_history = <<>> =>
              chat_history = LastN(history_before \o <<Entry("user", new_user_message)>>, maxlen)

\* A non-empty previous history was replaced by the lines of a conversation that has a bot
\* line with a JSON reply, and the deque was filled beyond its capacity.
C13_Witness ==
    /\ history_pc = "done"
    /\ history_before # <<>>
    /\ conversation_history # <<>>
    /\ Len(ParsedLines(conversation_history)) >= maxlen
    /\ maxlen > 1
    /\ \E k \in 1..Len(chat_history) : chat_history[k] = Entry("bot", StrV(<<"y">>))

ParseInit ==
    /\ default_domain = "cora"
    /\ session_domains = <<>>
    /\ pc = [s \in Sessions |-> "idle"]
    /\ current_domain = [s \in Sessions |-> None]
    /\ user_message = [s \in Sessions |-> 0]
    /\ calls = [s \in Sessions |-> 0]
    /\ result = NoResult
    /\ response \in Texts
    /\ parsed = NotParsed
    /\ path = "none"
    /\ HistoryIdle

ParseNext == parse_agent_response_call /\ UNCHANGED <<hvars, cvars>>

SpecParse == ParseInit /\ [][ParseNext]_vars

Init ==
    /\ HandoffInit
    /\ response = <<>>
    /\ parsed = NotParsed
    /\ path = "none"
    /\ HistoryIdle

Next ==
    \/ \E s \in Sessions, m \in Messages : classify_intent_first(s, m) /\ UNCHANGED <<pvars, cvars>>
    \/ \E s \in Sessions, m \in Messages : classify_intent_call(s, m) /\ UNCHANGED <<pvars, cvars>>
    \/ \E s \in Sessions, i \in IntentClassification :
          classify_intent_return(s, i) /\ UNCHANGED <<pvars, cvars>>
    \/ \E s \in Sessions : classify_intent_except(s) /\ UNCHANGED <<pvars, cvars>>
    \/ \E s \in Sessions, d \in DomainStrings : set_domain(s, d) /\ UNCHANGED <<pvars, cvars>>
    \/ \E s \in Sessions : reset_session(s) /\ UNCHANGED <<pvars, cvars>>

Spec == Init /\ [][Next]_vars

----------------------------------------------------------------------------
(* Properties of the intent router, checked under Spec *)

\* The last completed call was classify_intent.
Classified == result.op = "classify_intent"

\* C1: a classify_intent on a session without a recorded domain returns the default domain,
\* marked as a domain change with confidence 1.0, and records the default domain for the
\* session, whatever the message and whatever happened on other sessions before.
C1_FirstMessageDefault ==
    (Classified /\ result.before = None) =>
        /\ result.domain = default_domain
        /\ result.is_domain_change = TRUE
        /\ result.confidence = 10
        /\ get_current_domain(result.sid) = default_domain

\* A first classification of one session while another session already has a domain that
\* is not the default.
C1_Witness ==
    /\ Classified /\ result.before = None
    /\ \E s \in Sessions \ {result.sid} :
          get_current_domain(s) \notin {None, default_domain}

\* C2: when the classifier call raises, classify_intent returns the session's prior domain
\* (the default if there was none) with confidence 0.3, not marked as a domain change, and
\* the session's recorded domain is what it was before the call.
C2_FallbackOnError ==
    (Classified /\ result.classifier = "raised") =>
        /\ result.domain = (IF result.before = None THEN default_domain ELSE result.before)
        /\ result.confidence = 3
        /\ result.is_domain_change = FALSE
        /\ get_current_domain(result.sid) = result.before

\* The classifier raised on a session whose domain is not the default.
C2_Witness ==
    /\ Classified /\ result.classifier = "raised"
    /\ result.before \notin {None, default_domain}

\* C3: on a session with a recorded domain, classify_intent changes the recorded domain only
\* when the classifier returned with is_domain_change set and a domain other than the current
\* one, and then the recorded domain is the classifier's domain.
C3_UpdatedOnlyOnReportedChange ==
    (Classified /\ result.before # None) =>
        /\ (\/ result.classifier # "returned"
            \/ result.is_domain_change = FALSE
            \/ result.domain = result.before)
                => get_current_domain(result.sid) = result.before
        /\ get_current_domain(result.sid) # result.before
                => (result.classifier = "returned"
                    /\ get_current_domain(result.sid) = result.domain)

\* C4: every domain recorded in the session map is a key of AGENT_DOMAINS.
C4_RecordedDomainsKnown ==
    \A s \in DOMAIN session_domains : session_domains[s] \in AGENT_DOMAINS

\* C5: after set_domain(session, d), get_current_domain(session) is d when d is a known
\* domain and the default domain when it is not.
C5_SetDomain ==
    result.op = "set_domain" =>
        get_current_domain(result.sid) =
            (IF result.arg \in AGENT_DOMAINS THEN result.arg ELSE default_domain)

\* set_domain was called with a name outside the known set.
C5_Witness ==
    /\ result.op = "set_domain"
    /\ result.arg \notin AGENT_DOMAINS
    /\ result.before \notin {None, default_domain}

\* C6: reset_session deletes the session's entry, and leaves the map as it is when there is
\* none; the next classify_intent on the session takes the first-message path: no classifier
\* call, default domain, confidence 1.0.
C6_ResetSession ==
    [][/\ \A s \in Sessions :
            reset_session(s) =>
                /\ get_current_domain(s)' = None
                /\ s \notin DOMAIN session_domains => session_domains' = session_domains
                /\ DOMAIN session_domains' = (DOMAIN session_domains) \ {s}
       /\ result.op = "reset_session" =>
            /\ pc'[result.sid] = "idle"
            /\ (result'.op = "classify_intent" /\ result'.sid = result.sid) =>
                    /\ result'.classifier_calls = 0
                    /\ result'.classifier = "none"
                    /\ result'.domain = default_domain
                    /\ result'.is_domain_change = TRUE
                    /\ result'.confidence = 10
                    /\ get_current_domain(result.sid)' = default_domain]_vars

\* reset_session deleted the recorded domain of a session while another session keeps one.
C6_Witness ==
    /\ result.op = "reset_session"
    /\ result.before \in AGENT_DOMAINS
    /\ \E s \in Sessions \ {result.sid} : get_current_domain(s) # None

\* C10: a classify_intent on a session with an entry in the session map invokes the
\* classifier exactly once, whatever string the entry holds, and a classify_intent on a
\* session without an entry never invokes it.
C10_ClassifierCalledOncePerEntry ==
    Classified =>
        /\ result.before # None => result.classifier_calls = 1
        /\ result.before = None => result.classifier_calls = 0

\* A step of a call on session a: any step of classify_intent, set_domain or reset_session.
StepOn(a) ==
    \/ \E m \in Messages : classify_intent_first(a, m) \/ classify_intent_call(a, m)
    \/ \E i \in IntentClassification : classify_intent_return(a, i)
    \/ classify_intent_except(a)
    \/ \E d \in DomainStrings : set_domain(a, d)
    \/ reset_session(a)

\* C11: a step of classify_intent (a failing one included), set_domain or reset_session on
\* one session leaves the recorded domain of every other session as it was, presence of
\* the entry included, in every interleaving of the sessions' calls.
C11_SessionsIndependent ==
    [][\A a \in Sessions :
          \/ \A b \in Sessions \ {a} :
                /\ get_current_domain(b)' = get_current_domain(b)
                /\ (b \in DOMAIN session_domains') = (b \in DOMAIN session_domains)
          \/ ~StepOn(a)]_vars

\* A call on one session changed its domain while a call on another session, which holds a
\* different domain, is waiting for the classifier.
C11_Witness ==
    /\ Classified /\ result.classifier = "returned" /\ result.is_domain_change
    /\ result.domain # result.before
    /\ \E b \in Sessions \ {result.sid} :
          /\ pc[b] = "calling"
          /\ get_current_domain(b) \notin {None, result.domain, result.before}

----------------------------------------------------------------------------
(* Properties of the response normalizer, checked under SpecParse *)

ResultKeys ==
    {"answer", "agent", "products", "discount_percentage", "image_url", "additional_data", "cart"}

\* C7: whatever the text, the dict parse_agent_response returns has exactly the seven keys.
C7_FixedShape ==
    path # "none" => DOMAIN parsed = ResultKeys

\* C8: when json.loads fails, the answer is the text the caller passed, whole, and every
\* other field is empty.
C8_RawTextOnFailure ==
    path = "except" =>
        /\ parsed.answer = StrV(response)
        /\ \A k \in {"agent", "products", "discount_percentage", "image_url", "additional_data"} :
              parsed[k] = EmptyStr
        /\ parsed.cart = EmptyList

\* C9: when the record the fields are taken from (the parsed dict, or the dict that is the
\* first element of the parsed list) has a list or a dict as products, the products of the
\* result is the JSON text of that value.
C9_ProductsSerialized ==
    (path \in {"dict", "list_dict"}
        /\ DictGet(ExtractedRecord(response), Key("products"), EmptyStr).t \in {"list", "dict"}) =>
            parsed.products =
                StrV(json_dumps(DictGet(ExtractedRecord(response), Key("products"), EmptyStr)))

\* The answer field of the dict that json.loads produced from the text.
ParsedAnswer(text) == DictGet(ExtractedRecord(text), Key("answer"), EmptyStr)

\* The text begins with '[' and ends with ']'.
Bracketed(s) == s # <<>> /\ Head(s) = "[" /\ s[Len(s)] = "]"

\* The text is JSON whose value is a non-empty array starting with a dict that has an answer.
HasInnerAnswer(s) ==
    /\ json_loads(s).ok
    /\ json_loads(s).v.t = "list"
    /\ Len(json_loads(s).v.items) > 0
    /\ json_loads(s).v.items[1].t = "dict"
    /\ DictHas(json_loads(s).v.items[1], Key("answer"))

\* The answer of the first element of the array the text denotes.
InnerAnswer(s) == DictGet(json_loads(s).v.items[1], Key("answer"), EmptyStr)

\* C12 as stated: when the parsed value is a dict whose answer is the text of a JSON array
\* (text that json.loads reads as an array, or bracketed text that fails to parse), the result's
\* answer is the answer of the array's first element when there is one, taken as it is, and
\* the original answer text otherwise.
C12_UnwrapArrayText ==
    (/\ path = "dict"
     /\ ParsedAnswer(response).t = "str"
     /\ \/ Bracketed(ParsedAnswer(response).s)
        \/ (json_loads(ParsedAnswer(response).s).ok
                /\ json_loads(ParsedAnswer(response).s).v.t = "list")) =>
        parsed.answer = (IF HasInnerAnswer(ParsedAnswer(response).s)
                         THEN InnerAnswer(ParsedAnswer(response).s)
                         ELSE ParsedAnswer(response))

\* C12 amended: the same for an answer that begins with '[' and ends with ']'; an answer
\* that is array text with whitespace around it is returned unchanged.
C12_UnwrapBracketedText ==
    (path = "dict" /\ ParsedAnswer(response).t = "str") =>
        parsed.answer = (IF Bracketed(ParsedAnswer(response).s)
                            /\ HasInnerAnswer(ParsedAnswer(response).s)
                         THEN InnerAnswer(ParsedAnswer(response).s)
                         ELSE ParsedAnswer(response))

\* An answer that was array text around array text: one level was removed and the result is
\* array text that would unwrap again.
C12_Witness ==
    /\ path = "dict"
    /\ ParsedAnswer(response).t = "str"
    /\ Bracketed(ParsedAnswer(response).s)
    /\ parsed.answer # ParsedAnswer(response)
    /\ parsed.answer.t = "str"
    /\ Bracketed(parsed.answer.s)
    /\ HasInnerAnswer(parsed.answer.s)

====
